---- MODULE Spec2Model ----
(***************************************************************************)
(* Model of the assert_enum_variants! macro (src/lib.rs).                  *)
(*                                                                         *)
(* The macro expands, at each call site, to                                *)
(*                                                                         *)
(*   const _: () = {                                                       *)
(*       if false {                                                        *)
(*           let _unreachable_obj: $enum = core::unreachable!();           *)
(*           use $enum::{ $($variant),* };                                 *)
(*           match _unreachable_obj { $( $variant { .. } => (), )* };      *)
(*       }                                                                 *)
(*   };                                                                    *)
(*                                                                         *)
(* and the build of the enclosing crate accepts or rejects that item.  The *)
(* model follows the expansion statement by statement: the `use` is        *)
(* resolved name by name, the `match` is checked for exhaustiveness over   *)
(* the declared variants, and the const block is evaluated.                *)
(***************************************************************************)
EXTENDS Integers, Sequences, FiniteSets, TLC

VARIABLES
    callSite,   \* call site -> [enum: the type named by $enum, variant: the $variant list]
    status,     \* call site -> "NotYetChecked" | "Consistent" | "Inconsistent"
    diag,       \* call site -> the diagnostics the build printed for it
    executed,   \* call site -> the statements of the expansion that were evaluated
    checks,     \* call site -> how many times the site has been checked
    build,      \* "compiling" | "succeeded" | "failed"
    keepGoing,  \* whether the compiler in use still analyses the match after
                \* reporting a name-resolution error that left its arms resolved
    artifact    \* the items of the compiled artifact ({} until the build succeeds)

vars == <<callSite, status, diag, executed, checks, build, keepGoing, artifact>>

----------------------------------------------------------------------------
(* Bounds                                                                  *)

\* longest $variant list of a single call site
MaxLen == 4

\* number of call sites in a crate built as a whole
NSites == 2

----------------------------------------------------------------------------
(* Types and argument lists                                                *)

\* identifiers that may be declared as variants (doc enum MyEnum: A, B, C)
DeclNames == <<"A", "B", "C">>

\* identifiers that may be written in a $variant list (D: the doc's extra name)
Names == {"A", "B", "C", "D"}

\* payload shapes of a variant: `A`, `B(u32)`, `C { a: u64, b: u32 }`
Shapes == {"unit", "tuple", "named"}

\* every variant declaration list over a sequence of names: each name is
\* absent, or declared with one of the payload shapes
RECURSIVE Decls(_)
Decls(ns) ==
    IF ns = <<>> THEN {<<>>}
    ELSE LET rest == Decls(Tail(ns))
         IN  rest \cup {<<[name |-> Head(ns), shape |-> s]>> \o r :
                            s \in Shapes, r \in rest}

EnumTypes == {[kind |-> "enum", variants |-> d] : d \in Decls(DeclNames)}

\* a type that is not an enum: an ordinary (inhabited) struct
StructType == [kind |-> "struct", variants |-> <<>>]

Types == EnumTypes \cup {StructType}

\* the enums of the tests
MyEnum ==
    [kind |-> "enum",
     variants |-> << [name |-> "A", shape |-> "unit"],
                     [name |-> "B", shape |-> "tuple"],
                     [name |-> "C", shape |-> "named"] >>]

Never == [kind |-> "enum", variants |-> <<>>]

\* the $variant lists a call site may carry
Lists == UNION {[1..n -> Names] : n \in 0..MaxLen}

\* the $variant lists written in the documentation and the tests
DocLists == { <<>>, <<"A", "B">>, <<"A", "B", "C">>, <<"A", "B", "C", "D">> }

\* the items of the enclosing crate that are compiled into the artifact
BaseProgram == {"from_extension"}

VariantNames(T) == {T.variants[k].name : k \in DOMAIN T.variants}

ShapeOf(T, n) ==
    LET k == CHOOSE j \in DOMAIN T.variants : T.variants[j].name = n
    IN  T.variants[k].shape

----------------------------------------------------------------------------
(* The macro expansion                                                     *)

\* the condition guarding the block: `if false`
IfConditionTrue == TRUE
IfCondition == FALSE

\* the pattern written after each $variant in a match arm: `{ .. }`
ArmPatternBare == ""
ArmPattern == "{ .. }"

\* $enum and $($variant),* substituted into the macro body
Expand(enum, variant) ==
    [ objType |-> enum,
      imports |-> variant,
      arms    |-> [k \in DOMAIN variant |->
                      [path |-> variant[k], pat |-> ArmPattern]] ]

----------------------------------------------------------------------------
(* use $enum::{ $($variant),* };                                           *)

\* the imported names that $enum does not contain: only the variants of an
\* enum can be imported from it, and nothing can be imported from a struct
UnresolvedNamesNone(T, imports) == {}
UnresolvedNamesHeadOnly(T, imports) ==
    IF imports = <<>> THEN {}
    ELSE {n \in {Head(imports)} : T.kind # "enum" \/ n \notin VariantNames(T)}
UnresolvedNames(T, imports) ==
    {n \in {imports[k] : k \in DOMAIN imports} :
        T.kind # "enum" \/ n \notin VariantNames(T)}

\* the names the one `use` brings into scope more than once
DuplicateNamesNone(imports) == {}
DuplicateNames(imports) ==
    {n \in {imports[k] : k \in DOMAIN imports} :
        Cardinality({k \in DOMAIN imports : imports[k] = n}) > 1}

ResolveImports(x) ==
    {[kind |-> "UnresolvedImport", name |-> n] :
        n \in UnresolvedNames(x.objType, x.imports)}
    \cup
    {[kind |-> "DuplicateName", name |-> n] : n \in DuplicateNames(x.imports)}

----------------------------------------------------------------------------
(* match _unreachable_obj { $( $variant { .. } => (), )* };                *)

\* `V { .. }` matches a variant of any payload shape; a bare `V` only a unit
\* variant
PatternAccepts(pat, shape) ==
    CASE pat = "{ .. }" -> shape \in Shapes
      [] OTHER          -> shape = "unit"

\* arms whose pattern does not fit the variant they name
MismatchedArms(T, arms) ==
    {arms[k].path : k \in {j \in DOMAIN arms :
        /\ arms[j].path \in VariantNames(T)
        /\ ~PatternAccepts(arms[j].pat, ShapeOf(T, arms[j].path))}}

\* what the arms leave uncovered: the declared variants no arm names; a
\* struct value is covered by no variant arm at all
MissingVariantsWildcard(T, arms) == {}
MissingVariantsStructEmpty(T, arms) ==
    VariantNames(T) \ {arms[k].path : k \in DOMAIN arms}
MissingVariants(T, arms) ==
    IF T.kind = "enum"
    THEN VariantNames(T) \ {arms[k].path : k \in DOMAIN arms}
    ELSE {"_"}

CheckMatch(x) ==
    {[kind |-> "PatternMismatch", name |-> n] :
        n \in MismatchedArms(x.objType, x.arms)}
    \cup
    {[kind |-> "NonExhaustive", name |-> n] :
        n \in MissingVariants(x.objType, x.arms)}

----------------------------------------------------------------------------
(* const _: () = { if false { ... } };                                     *)

\* the statements of the block that evaluating the const item reaches: the
\* initializer `core::unreachable!()` comes first and diverges
ConstEval(x) == IF IfCondition THEN {"unreachable"} ELSE {}

\* the items the const item adds to the artifact: the code of the block
\* that is reachable
Emitted(x) == IF IfCondition THEN {"match"} ELSE {}

\* the whole check of one invocation.  An arm that names an unresolved
\* import makes the body ill-formed, and the match is then not analysed.
\* After a duplicate-name error alone the arms are still resolved: whether
\* the match is then analysed depends on the compiler, which either goes on
\* to the later analyses after an error or stops at the end of the phase
\* that reported it.
validate(enum, variant) ==
    LET x        == Expand(enum, variant)
        resolve  == ResolveImports(x)
        tainted  == \E d \in resolve : d.kind = "UnresolvedImport"
        stopped  == resolve # {} /\ ~keepGoing
        matching == IF tainted \/ stopped THEN {} ELSE CheckMatch(x)
        errs     == resolve \cup matching
        ran      == IF errs = {} THEN ConstEval(x) ELSE {}
        panic    == IF "unreachable" \in ran
                    THEN {[kind |-> "ConstPanic", name |-> "unreachable"]}
                    ELSE {}
        all      == errs \cup panic
    IN  [ outcome  |-> IF all = {} THEN "Consistent" ELSE "Inconsistent",
          diag     |-> all,
          executed |-> ran,
          emitted  |-> IF all = {} THEN Emitted(x) ELSE {} ]

----------------------------------------------------------------------------
(* The build                                                               *)

Sites == DOMAIN callSite

\* an error at any call site is a hard error of the build
BuildResultWarnOnly(st) == "succeeded"
BuildResult(st) ==
    IF \E i \in DOMAIN st : st[i] = "Inconsistent" THEN "failed" ELSE "succeeded"

InitCommon ==
    /\ status   = [i \in Sites |-> "NotYetChecked"]
    /\ diag     = [i \in Sites |-> {}]
    /\ executed = [i \in Sites |-> {}]
    /\ checks   = [i \in Sites |-> 0]
    /\ build    = "compiling"
    /\ keepGoing \in BOOLEAN
    /\ artifact = {}

\* one invocation, of any type with any list
Init ==
    /\ callSite \in [1..1 -> [enum : Types, variant : Lists]]
    /\ InitCommon

\* a crate with several invocations taken from the documentation and tests
InitBuild ==
    /\ callSite \in [1..NSites -> [enum : {MyEnum, Never}, variant : DocLists]]
    /\ InitCommon

\* the build checks the invocation at call site i
Validate(i) ==
    /\ build = "compiling"
    /\ status[i] = "NotYetChecked"
    /\ LET r == validate(callSite[i].enum, callSite[i].variant)
       IN  /\ status'   = [status EXCEPT ![i] = r.outcome]
           /\ diag'     = [diag EXCEPT ![i] = r.diag]
           /\ executed' = [executed EXCEPT ![i] = r.executed]
    /\ checks' = [checks EXCEPT ![i] = @ + 1]
    /\ UNCHANGED <<callSite, build, keepGoing, artifact>>

\* every call site has been checked: the build ends
FinishBuild ==
    /\ build = "compiling"
    /\ \A i \in Sites : status[i] # "NotYetChecked"
    /\ build' = BuildResult(status)
    /\ artifact' =
         IF build' = "succeeded"
         THEN BaseProgram \cup
              UNION {validate(callSite[i].enum, callSite[i].variant).emitted :
                        i \in Sites}
         ELSE {}
    /\ UNCHANGED <<callSite, status, diag, executed, checks, keepGoing>>

Next ==
    \/ \E i \in Sites : Validate(i)
    \/ FinishBuild

Spec == Init /\ [][Next]_vars

\* the build tool runs to completion: a check or the end of the build that
\* can be taken is taken
BuildSpec == InitBuild /\ [][Next]_vars /\ WF_vars(Next)

----------------------------------------------------------------------------
(* Properties                                                              *)

Checked(i) == status[i] # "NotYetChecked"

TypeAt(i) == callSite[i].enum
ListAt(i) == callSite[i].variant

ListSet(E) == {E[k] : k \in DOMAIN E}

HasRepeat(E) == Cardinality(ListSet(E)) < Len(E)

\* E with every occurrence of a name after its first one dropped
RECURSIVE RemoveRepeats(_)
RemoveRepeats(E) ==
    IF E = <<>> THEN <<>>
    ELSE LET front == RemoveRepeats(SubSeq(E, 1, Len(E) - 1))
             last  == E[Len(E)]
         IN  IF last \in ListSet(front) THEN front ELSE Append(front, last)

\* the reorderings of E
Perms(E) ==
    {[k \in DOMAIN E |-> E[p[k]]] : p \in Permutations(DOMAIN E)}

\* the enums with the variant names of T and any payload shapes
Reshapes(T) ==
    {[kind |-> "enum",
      variants |-> [k \in DOMAIN T.variants |->
                       [name |-> T.variants[k].name, shape |-> f[k]]]] :
        f \in [DOMAIN T.variants -> Shapes]}

BuildDone == build # "compiling"

C2_MissingVariantNamed ==
    \A i \in Sites :
        LET declared == VariantNames(TypeAt(i))
            missing  == declared \ ListSet(ListAt(i))
        IN  ( /\ Checked(i)
              /\ TypeAt(i).kind = "enum"
              /\ ListSet(ListAt(i)) \subseteq declared
              /\ missing # {} ) =>
                /\ status[i] = "Inconsistent"
                /\ \E d \in diag[i] :
                      d.kind = "NonExhaustive" /\ d.name \in missing

\* C2 (amended): when every name of E is a declared variant of the enum T,
\* E names no identifier twice and at least one declared variant is absent
\* from E, the invocation ends Inconsistent with a non-exhaustive-match
\* diagnostic that names at least one of the missing variants; with a name
\* repeated in E the invocation still ends Inconsistent.
C2_MissingVariantDetected ==
    \A i \in Sites :
        LET declared == VariantNames(TypeAt(i))
            missing  == declared \ ListSet(ListAt(i))
        IN  ( /\ Checked(i)
              /\ TypeAt(i).kind = "enum"
              /\ ListSet(ListAt(i)) \subseteq declared
              /\ missing # {} ) =>
                /\ status[i] = "Inconsistent"
                /\ ~HasRepeat(ListAt(i)) =>
                      \E d \in diag[i] :
                          d.kind = "NonExhaustive" /\ d.name \in missing

C2_Witness ==
    \E i \in Sites :
        /\ VariantNames(TypeAt(i)) = {"A", "B", "C"}
        /\ ListAt(i) = <<"A", "B">>
        /\ [kind |-> "NonExhaustive", name |-> "C"] \in diag[i]

\* C3: when E contains a name that is not a declared variant of the enum T,
\* the invocation ends Inconsistent with an unresolved-import diagnostic
\* that names that identifier, also when E names every declared variant.
C3_UnknownVariantDetected ==
    \A i \in Sites :
        (Checked(i) /\ TypeAt(i).kind = "enum") =>
            \A n \in ListSet(ListAt(i)) \ VariantNames(TypeAt(i)) :
                /\ status[i] = "Inconsistent"
                /\ [kind |-> "UnresolvedImport", name |-> n] \in diag[i]

C3_Witness ==
    \E i \in Sites :
        /\ VariantNames(TypeAt(i)) = {"A", "B", "C"}
        /\ ListAt(i) = <<"A", "B", "C", "D">>
        /\ [kind |-> "UnresolvedImport", name |-> "D"] \in diag[i]

\* C4: for an enum with zero declared variants the invocation with the
\* empty list succeeds and the invocation with any non-empty list fails.
C4_UninhabitedBoundary ==
    \A i \in Sites :
        (Checked(i) /\ TypeAt(i) = Never) =>
            /\ ListAt(i) = <<>> => status[i] = "Consistent"
            /\ ListAt(i) # <<>> => status[i] = "Inconsistent"

C4_Witness ==
    \E i \in Sites :
        /\ TypeAt(i) = Never
        /\ ListAt(i) = <<>>
        /\ status[i] = "Consistent"

\* C5: the outcome depends only on the variant identifiers: an enum with
\* the same variant names and any other payload shapes gives the same
\* outcome and diagnostics for the same list; and the enum with A (unit),
\* B (one positional field), C (named fields) succeeds with {A, B, C}.
C5_PayloadShapeIrrelevant ==
    \A i \in Sites :
        (Checked(i) /\ TypeAt(i).kind = "enum") =>
            /\ \A T2 \in Reshapes(TypeAt(i)) :
                  LET r == validate(T2, ListAt(i))
                  IN  r.outcome = status[i] /\ r.diag = diag[i]
            /\ (TypeAt(i) = MyEnum /\ ListAt(i) = <<"A", "B", "C">>)
                  => status[i] = "Consistent"

C5_Witness ==
    \E i \in Sites :
        /\ TypeAt(i) = MyEnum
        /\ ListAt(i) = <<"A", "B", "C">>
        /\ status[i] = "Consistent"

\* C6 (as stated): for a list that names every declared variant of the enum
\* T and no other name, repeating a name does not make the invocation fail:
\* the outcome is that of the list without the repetition.
C6_DuplicateInsensitive ==
    \A i \in Sites :
        ( /\ Checked(i)
          /\ TypeAt(i).kind = "enum"
          /\ ListSet(ListAt(i)) = VariantNames(TypeAt(i)) ) =>
            status[i] = validate(TypeAt(i), RemoveRepeats(ListAt(i))).outcome

\* C6 (amended): for a list that names every declared variant of the enum T
\* and no other name, repeating a name makes the invocation fail with a
\* duplicate-name diagnostic for each repeated name, while the list without
\* the repetition succeeds.
C6_DuplicateRejected ==
    \A i \in Sites :
        ( /\ Checked(i)
          /\ TypeAt(i).kind = "enum"
          /\ ListSet(ListAt(i)) = VariantNames(TypeAt(i)) ) =>
            /\ validate(TypeAt(i), RemoveRepeats(ListAt(i))).outcome
                  = "Consistent"
            /\ HasRepeat(ListAt(i)) =>
                  /\ status[i] = "Inconsistent"
                  /\ diag[i] =
                       {[kind |-> "DuplicateName", name |-> n] :
                           n \in {m \in ListSet(ListAt(i)) :
                                    Cardinality({k \in DOMAIN ListAt(i) :
                                                   ListAt(i)[k] = m}) > 1}}
            /\ ~HasRepeat(ListAt(i)) => status[i] = "Consistent"

C6_Witness ==
    \E i \in Sites :
        /\ VariantNames(TypeAt(i)) = {"A", "B", "C"}
        /\ ListAt(i) = <<"A", "A", "B", "C">>
        /\ status[i] = "Inconsistent"

\* C7: the invocation is order-insensitive: every reordering of the list
\* gives the same outcome and the same diagnostics for the same type.
C7_OrderInsensitive ==
    \A i \in Sites :
        Checked(i) =>
            \A E2 \in Perms(ListAt(i)) :
                LET r == validate(TypeAt(i), E2)
                IN  r.outcome = status[i] /\ r.diag = diag[i]

C7_Witness ==
    \E i \in Sites :
        /\ VariantNames(TypeAt(i)) = {"A", "B", "C"}
        /\ ListAt(i) = <<"C", "A", "B">>
        /\ status[i] = "Consistent"

\* C8: no statement of the expansion (the unreachable! placeholder, a match
\* arm) is ever evaluated, and the artifact of a successful build is the
\* artifact of the same crate without the invocations.
C8_ZeroFootprint ==
    /\ \A i \in Sites : executed[i] = {}
    /\ build = "succeeded" => artifact = BaseProgram

C8_Witness ==
    /\ build = "succeeded"
    /\ artifact = BaseProgram
    /\ \E i \in Sites : status[i] = "Consistent" /\ ListAt(i) # <<>>

\* C9 (as stated): when the type is a struct, the build fails for every
\* list, the empty one included, with a diagnostic stating that the
\* invocation is only valid for sum types.
C9_NotASumTypeDiagnostic ==
    \A i \in Sites :
        (Checked(i) /\ TypeAt(i).kind = "struct") =>
            /\ status[i] = "Inconsistent"
            /\ \E d \in diag[i] : d.kind = "NotASumType"

\* C9 (amended): when the type is an (inhabited) struct, the build fails for
\* every list, the empty one included; the diagnostics are the host's own:
\* a non-exhaustive-match diagnostic for the empty list, unresolved-import
\* diagnostics for a non-empty one, and none dedicated to sum types.
C9_StructRejected ==
    \A i \in Sites :
        (Checked(i) /\ TypeAt(i).kind = "struct") =>
            /\ status[i] = "Inconsistent"
            /\ BuildDone => build = "failed"
            /\ ListAt(i) = <<>> =>
                  \A d \in diag[i] : d.kind = "NonExhaustive"
            /\ ListAt(i) # <<>> =>
                  \E d \in diag[i] : d.kind = "UnresolvedImport"
            /\ \A d \in diag[i] : d.kind # "NotASumType"

C9_Witness ==
    \E i \in Sites :
        /\ TypeAt(i).kind = "struct"
        /\ ListAt(i) = <<>>
        /\ status[i] = "Inconsistent"
        /\ build = "failed"

\* C10: each call site is checked exactly once and moves from NotYetChecked
\* to Consistent (no diagnostic) or Inconsistent; every site is eventually
\* checked and the build eventually ends; an outcome once reached never
\* changes; and the build fails exactly when some call site is Inconsistent.
C10_Step ==
    /\ \A i \in Sites :
          /\ Checked(i) => (status'[i] = status[i] /\ checks'[i] = checks[i])
          /\ status[i] # status'[i] =>
                /\ status'[i] \in {"Consistent", "Inconsistent"}
                /\ checks'[i] = 1
    /\ BuildDone => build' = build

C10_State ==
    /\ \A i \in Sites :
          /\ checks[i] = (IF Checked(i) THEN 1 ELSE 0)
          /\ status[i] = "Consistent" => diag[i] = {}
          /\ status[i] = "Inconsistent" => diag[i] # {}
    /\ BuildDone =>
          /\ \A i \in Sites : Checked(i)
          /\ build = "failed" <=> \E i \in Sites : status[i] = "Inconsistent"

C10_Lifecycle ==
    /\ [][C10_Step]_vars
    /\ []C10_State
    /\ <>(\A i \in Sites : Checked(i))
    /\ <>BuildDone

C10_Witness ==
    /\ build = "failed"
    /\ \E i, j \in Sites :
          status[i] = "Consistent" /\ status[j] = "Inconsistent"

====
